---- MODULE Spec2Model ----
(***************************************************************************)
(* MiniMoog (src/minimoog.py): a pyo signal graph of three oscillators, a  *)
(* noise generator, two MIDI envelopes, two LFOs and a Moog ladder filter, *)
(* with 23 stored attributes and one setter per attribute.                 *)
(*                                                                         *)
(* Number representation (Python floats become scaled integers):           *)
(*   sharpN, mulN, cutoffFact, res, mulWhiteNoise, mulPinkNoise and the    *)
(*   two selector positions are in tenths (10 = 1.0);                      *)
(*   typeN, intervalN, rangeN, switch3, voiceSel are the Python ints;      *)
(*   lfotremolo, lfovibrato are in Hz;                                     *)
(*   control signals (envelope, LFO outputs) are in hundredths (100 = 1.0) *)
(***************************************************************************)
EXTENDS Integers, Sequences, FiniteSets, TLC

VARIABLES
    self,       \* the 23 private attributes self._<name>        (lines 127-155)
    graph,      \* attributes of the pyo objects of the graph    (lines 166-196)
    notes,      \* Notein: current pitch and velocity streams    (line 158)
    env,        \* MidiAdsr on amplitude                         (line 166)
    envfilt,    \* MidiAdsr on the filter                        (line 193)
    moog,       \* memory of the four MoogLP stages              (line 196)
    out,        \* the last rendered sample of the filter        (lines 196-203)
    noteSeen,   \* whether any note event was ever received
    last,       \* the last call made on the control surface
    ncalls,     \* constructor arguments given plus setter calls made
    threads     \* each control thread's position inside the setter it runs

vars == <<self, graph, notes, env, envfilt, moog, out, noteSeen, last, ncalls,
          threads>>

\* the notes and the state of the sounding graph
sound == <<notes, env, envfilt, moog, out, noteSeen>>

\* what a setter run from start to end by one caller leaves alone
dyn == <<sound, threads>>

----------------------------------------------------------------------------
(* Bounds of the model *)

\* values the caller may supply: constructor arguments given plus setter calls
MaxCalls == 2

\* distance (tenths) of the out-of-range arguments from the documented range
Over == 5

\* note-on velocities explored: 100 \div k percent for k in 1..NumVel
NumVel == 2

\* octaves around A4 the note pitches are drawn from
PitchSpan == 0

\* duration of one rendered block, in milliseconds
BlockMs == 100

----------------------------------------------------------------------------
(* Program constants *)

\* 2**(1/12) = 1.0594630943..., in units of 1e-5
SemitoneRatio == 105946

\* MidiAdsr(..., attack=0.05, decay=0.4, sustain=0.5, release=0.5, mul=0.65)
AttackMs == 50
DecayMs == 400
SustainPct == 50
ReleaseMs == 500
EnvMulPct == 65

\* MoogLP(freq = envfilt * 20000 * cutoffFact)
CutoffScale == 20000

\* Server() boots at pyo's default sampling rate
SampleRate == 44100

----------------------------------------------------------------------------
(* The control surface: names, documented ranges, constructor defaults *)

Params ==
    { "type1", "sharp1", "mul1",
      "type2", "sharp2", "mul2", "interval2", "range2",
      "switch3", "type3", "sharp3", "mul3", "interval3", "range3",
      "cutoffFact", "res",
      "voiceSel", "mulWhiteNoise", "mulPinkNoise",
      "lfotremolo", "selector_adsrtremolo", "lfovibrato", "selector_adsrvibrato" }

\* the gain / blend parameters
Gains ==
    { "mul1", "mul2", "mul3", "mulWhiteNoise", "mulPinkNoise",
      "cutoffFact", "res", "selector_adsrtremolo", "selector_adsrvibrato" }

\* documented range of each parameter (class docstring and the SLMaps of ctrl)
Lo(p) ==
    CASE p \in {"interval2", "interval3"} -> -8
      [] p \in {"range2", "range3"} -> 1
      [] p \in {"lfotremolo", "lfovibrato"} -> 1
      [] OTHER -> 0

Hi(p) ==
    CASE p \in {"type1", "type2", "type3"} -> 7
      [] p \in {"interval2", "interval3"} -> 8
      [] p \in {"range2", "range3"} -> 6
      [] p \in {"switch3", "voiceSel"} -> 1
      [] p \in {"lfotremolo", "lfovibrato"} -> 10
      [] p = "selector_adsrvibrato" -> 20
      [] OTHER -> 10

InRange(p, x) == Lo(p) <= x /\ x <= Hi(p)

\* default arguments of __init__
Defaults ==
    [ type1 |-> 0, sharp1 |-> 10, mul1 |-> 5,
      type2 |-> 0, sharp2 |-> 10, mul2 |-> 1, interval2 |-> 0, range2 |-> 0,
      switch3 |-> 0, type3 |-> 0, sharp3 |-> 10, mul3 |-> 1,
      interval3 |-> 0, range3 |-> 0,
      cutoffFact |-> 5, res |-> 5,
      voiceSel |-> 0, mulWhiteNoise |-> 0, mulPinkNoise |-> 0,
      lfotremolo |-> 2, selector_adsrtremolo |-> 0,
      lfovibrato |-> 2, selector_adsrvibrato |-> 0 ]

\* the pyo objects __init__ builds from its arguments a; an oscillator's mul
\* is the factor that multiplies the amplitude selector, osc2/osc3's freq the
\* pair of constants captured in (osc1.freq + 2**(1/12)*interval)*range, and
\* filt's freq the factor that multiplies envfilt*20000
Build(a) ==
    [ lfo1       |-> [freq |-> a.lfotremolo, type |-> 7, mul |-> 5, add |-> 10],
      ampmodmix  |-> [voice |-> 0],
      lfo2       |-> [freq |-> a.lfovibrato, type |-> 1, mul |-> 1, add |-> 10],
      freqmodmix |-> [voice |-> 0],
      osc1       |-> [sharp |-> a.sharp1, type |-> a.type1, mul |-> a.mul1],
      osc2       |-> [freq |-> [interval |-> a.interval2, range |-> a.range2],
                      sharp |-> a.sharp2, type |-> a.type2, mul |-> a.mul2],
      osc3       |-> [freq |-> [interval |-> a.interval3, range |-> a.range3],
                      sharp |-> a.sharp3, type |-> a.type3,
                      mul |-> a.mul3 * a.switch3],
      whitenoise |-> [mul |-> 10],
      pinknoise  |-> [mul |-> 10],
      sel        |-> [voice |-> 0],
      filt       |-> [freq |-> a.cutoffFact, res |-> a.res] ]

----------------------------------------------------------------------------
(* The setters, lines 280-510 *)

setType1(x) ==
    /\ self' = [self EXCEPT !.type1 = x]
    /\ graph' = [graph EXCEPT !.osc1.type = x]
    /\ UNCHANGED dyn

setSharp1(x) ==
    /\ self' = [self EXCEPT !.sharp1 = x]
    /\ graph' = [graph EXCEPT !.osc1.sharp = x]
    /\ UNCHANGED dyn

setMul1(x) ==
    /\ self' = [self EXCEPT !.mul1 = x]
    /\ graph' = [graph EXCEPT !.osc1.mul = x]
    /\ UNCHANGED dyn

setType2(x) ==
    /\ self' = [self EXCEPT !.type2 = x]
    /\ graph' = [graph EXCEPT !.osc2.type = x]
    /\ UNCHANGED dyn

setSharp2(x) ==
    /\ self' = [self EXCEPT !.sharp2 = x]
    /\ graph' = [graph EXCEPT !.osc2.sharp = x]
    /\ UNCHANGED dyn

setMul2(x) ==
    /\ self' = [self EXCEPT !.mul2 = x]
    /\ graph' = [graph EXCEPT !.osc2.mul = x]
    /\ UNCHANGED dyn

setInterval2(x) ==
    /\ self' = [self EXCEPT !.interval2 = x]
    /\ graph' = [graph EXCEPT !.osc2.freq = [interval |-> x, range |-> self.range2]]
    /\ UNCHANGED dyn

\* setRange2 that stores the attribute and leaves osc2.freq as it was
setRange2_stale(x) ==
    /\ self' = [self EXCEPT !.range2 = x]
    /\ UNCHANGED graph
    /\ UNCHANGED dyn

setRange2(x) ==
    /\ self' = [self EXCEPT !.range2 = x]
    /\ graph' = [graph EXCEPT !.osc2.freq = [interval |-> self.interval2, range |-> x]]
    /\ UNCHANGED dyn

setSwitch3(x) ==
    /\ self' = [self EXCEPT !.switch3 = x]
    /\ graph' = [graph EXCEPT !.osc3.mul = x * self.mul3]
    /\ UNCHANGED dyn

setType3(x) ==
    /\ self' = [self EXCEPT !.type3 = x]
    /\ graph' = [graph EXCEPT !.osc3.type = x]
    /\ UNCHANGED dyn

setSharp3(x) ==
    /\ self' = [self EXCEPT !.sharp3 = x]
    /\ graph' = [graph EXCEPT !.osc3.sharp = x]
    /\ UNCHANGED dyn

\* setMul3 written like setMul1 and setMul2, without the switch3 factor
setMul3_noswitch(x) ==
    /\ self' = [self EXCEPT !.mul3 = x]
    /\ graph' = [graph EXCEPT !.osc3.mul = x]
    /\ UNCHANGED dyn

setMul3(x) ==
    /\ self' = [self EXCEPT !.mul3 = x]
    /\ graph' = [graph EXCEPT !.osc3.mul = x * self.switch3]
    /\ UNCHANGED dyn

setInterval3(x) ==
    /\ self' = [self EXCEPT !.interval3 = x]
    /\ graph' = [graph EXCEPT !.osc3.freq = [interval |-> x, range |-> self.range3]]
    /\ UNCHANGED dyn

setRange3(x) ==
    /\ self' = [self EXCEPT !.range3 = x]
    /\ graph' = [graph EXCEPT !.osc3.freq = [interval |-> self.interval3, range |-> x]]
    /\ UNCHANGED dyn

setVoiceSel(x) ==
    /\ self' = [self EXCEPT !.voiceSel = x]
    /\ graph' = [graph EXCEPT !.sel.voice = x]
    /\ UNCHANGED dyn

setMulWhiteNoise(x) ==
    /\ self' = [self EXCEPT !.mulWhiteNoise = x]
    /\ graph' = [graph EXCEPT !.whitenoise.mul = x]
    /\ UNCHANGED dyn

setMulPinkNoise(x) ==
    /\ self' = [self EXCEPT !.mulPinkNoise = x]
    /\ graph' = [graph EXCEPT !.pinknoise.mul = x]
    /\ UNCHANGED dyn

setCutoffFact(x) ==
    /\ self' = [self EXCEPT !.cutoffFact = x]
    /\ graph' = [graph EXCEPT !.filt.freq = x]
    /\ UNCHANGED dyn

setRes(x) ==
    /\ self' = [self EXCEPT !.res = x]
    /\ graph' = [graph EXCEPT !.filt.res = x]
    /\ UNCHANGED dyn

setLFOtremolo(x) ==
    /\ self' = [self EXCEPT !.lfotremolo = x]
    /\ graph' = [graph EXCEPT !.lfo1.freq = x]
    /\ UNCHANGED dyn

\* setLFOvibrato that stores into the other LFO's attribute
setLFOvibrato_swapped(x) ==
    /\ self' = [self EXCEPT !.lfotremolo = x]
    /\ graph' = [graph EXCEPT !.lfo2.freq = x]
    /\ UNCHANGED dyn

setLFOvibrato(x) ==
    /\ self' = [self EXCEPT !.lfovibrato = x]
    /\ graph' = [graph EXCEPT !.lfo2.freq = x]
    /\ UNCHANGED dyn

setSelectorADSRVibrato(x) ==
    /\ self' = [self EXCEPT !.selector_adsrvibrato = x]
    /\ graph' = [graph EXCEPT !.freqmodmix.voice = x]
    /\ UNCHANGED dyn

setSelectorADSRTremolo(x) ==
    /\ self' = [self EXCEPT !.selector_adsrtremolo = x]
    /\ graph' = [graph EXCEPT !.ampmodmix.voice = x]
    /\ UNCHANGED dyn

----------------------------------------------------------------------------
(* The signals of the graph, as functions of the samples of their sources *)

Min(a, b) == IF a < b THEN a ELSE b
Max(a, b) == IF a > b THEN a ELSE b

\* Selector(inputs, voice): the voice is held inside [0, len-1] and the two
\* inputs around it are crossfaded linearly; the result is in tenths of the
\* inputs' unit
Selector(inputs, voice) ==
    LET top == (Len(inputs) - 1) * 10
        v   == Max(0, Min(top, voice))
        j   == IF v = top THEN Len(inputs) - 1 ELSE (v \div 10) + 1
        fr  == v - (j - 1) * 10
    IN  inputs[j] * (10 - fr) + inputs[j + 1] * fr

\* self._ampmodmix = Selector([self._env, self._lfo1])
AmpModMix(e, l1) == Selector(<<e, l1>>, graph.ampmodmix.voice)

\* self._freqmodmix = Selector([self._nomod, self._env, self._lfo2]), nomod = Sig(1)
FreqModMix(e, l2) == Selector(<<100, e, l2>>, graph.freqmodmix.voice)

\* osc1.freq = self._freqs * self._freqmodmix; f in centi-Hz, result in 1e-5 Hz
Osc1Freq(f, e, l2) == f * FreqModMix(e, l2)

\* (osc1.freq + (2**(1/12)) * interval) * range, in 1e-5 Hz
OscFreq(fr, f1) == (f1 + SemitoneRatio * fr.interval) * fr.range

Osc2Freq(f1) == OscFreq(graph.osc2.freq, f1)
Osc3Freq(f1) == OscFreq(graph.osc3.freq, f1)

\* the mul of each oscillator: amplitude selector times the captured factor
Osc1Mul(am) == am * graph.osc1.mul
Osc2Mul(am) == am * graph.osc2.mul
Osc3Mul(am) == am * graph.osc3.mul

\* LFO output = waveform sample * mul + add; osc2 adds osc1, osc3 adds osc2
Osc1Out(w, am) == w[1] * Osc1Mul(am)
Osc2Out(w, am) == w[2] * Osc2Mul(am) + Osc1Out(w, am)
Osc3Out(w, am) == w[3] * Osc3Mul(am) + Osc2Out(w, am)

----------------------------------------------------------------------------
(* Construction and the control surface *)

\* the arguments tried for parameter p: the ends of its documented range,
\* values beyond them, and the values the properties single out
ArgValues(p) ==
    CASE p \in Gains -> {Lo(p), 5, Hi(p), Hi(p) + Over, Lo(p) - Over}
      [] p \in {"interval2", "interval3"} -> {-8, 0, 8, 12}
      [] p \in {"range2", "range3"} -> {1, 2, 6}
      [] OTHER -> {Lo(p), Hi(p)}

\* __init__ called with its defaults or with one argument given
CtorArgs ==
    {Defaults} \cup
    UNION {{[Defaults EXCEPT ![p] = x] : x \in ArgValues(p)} : p \in Params}

\* the control threads that call the setters (spec 5: MIDI handler, UI)
Threads == {"midi", "ui"}

\* a thread that is inside no setter
Outside == [pc |-> "idle", op |-> "none", arg |-> 0, tmp |-> 0]

Rest ==
    /\ threads = [t \in Threads |-> Outside]
    /\ notes = [pitch |-> 0, velocity |-> 0]
    /\ env = [stage |-> "Idle", level |-> 0, amp |-> 0]
    /\ envfilt = [stage |-> "Idle", level |-> 0, amp |-> 0]
    /\ moog = "rest"
    /\ out = [silent |-> TRUE]
    /\ noteSeen = FALSE

Init ==
    /\ \E a \in CtorArgs :
        /\ self = a
        /\ graph = Build(a)
    /\ Rest
    /\ last = [op |-> "__init__", arg |-> 0]
    /\ ncalls = IF self = Defaults THEN 0 ELSE 1

Call(p, x) ==
    /\ ncalls < MaxCalls
    /\ ncalls' = ncalls + 1
    /\ last' = [op |-> p, arg |-> x]

Next ==
    \/ \E x \in ArgValues("type1") : Call("type1", x) /\ setType1(x)
    \/ \E x \in ArgValues("sharp1") : Call("sharp1", x) /\ setSharp1(x)
    \/ \E x \in ArgValues("mul1") : Call("mul1", x) /\ setMul1(x)
    \/ \E x \in ArgValues("type2") : Call("type2", x) /\ setType2(x)
    \/ \E x \in ArgValues("sharp2") : Call("sharp2", x) /\ setSharp2(x)
    \/ \E x \in ArgValues("mul2") : Call("mul2", x) /\ setMul2(x)
    \/ \E x \in ArgValues("interval2") : Call("interval2", x) /\ setInterval2(x)
    \/ \E x \in ArgValues("range2") : Call("range2", x) /\ setRange2(x)
    \/ \E x \in ArgValues("switch3") : Call("switch3", x) /\ setSwitch3(x)
    \/ \E x \in ArgValues("type3") : Call("type3", x) /\ setType3(x)
    \/ \E x \in ArgValues("sharp3") : Call("sharp3", x) /\ setSharp3(x)
    \/ \E x \in ArgValues("mul3") : Call("mul3", x) /\ setMul3(x)
    \/ \E x \in ArgValues("interval3") : Call("interval3", x) /\ setInterval3(x)
    \/ \E x \in ArgValues("range3") : Call("range3", x) /\ setRange3(x)
    \/ \E x \in ArgValues("voiceSel") : Call("voiceSel", x) /\ setVoiceSel(x)
    \/ \E x \in ArgValues("mulWhiteNoise") : Call("mulWhiteNoise", x) /\ setMulWhiteNoise(x)
    \/ \E x \in ArgValues("mulPinkNoise") : Call("mulPinkNoise", x) /\ setMulPinkNoise(x)
    \/ \E x \in ArgValues("cutoffFact") : Call("cutoffFact", x) /\ setCutoffFact(x)
    \/ \E x \in ArgValues("res") : Call("res", x) /\ setRes(x)
    \/ \E x \in ArgValues("lfotremolo") : Call("lfotremolo", x) /\ setLFOtremolo(x)
    \/ \E x \in ArgValues("lfovibrato") : Call("lfovibrato", x) /\ setLFOvibrato(x)
    \/ \E x \in ArgValues("selector_adsrvibrato") :
          Call("selector_adsrvibrato", x) /\ setSelectorADSRVibrato(x)
    \/ \E x \in ArgValues("selector_adsrtremolo") :
          Call("selector_adsrtremolo", x) /\ setSelectorADSRTremolo(x)

Spec == Init /\ [][Next]_vars

\* MiniMoog() with every argument defaulted, then setters called with
\* arguments inside the documented ranges only
InitDefault == Init /\ self = Defaults

NextInRange == Next /\ InRange(last'.op, last'.arg)

SpecDefault == InitDefault /\ [][NextInRange]_vars

----------------------------------------------------------------------------
(* Notes, envelopes and rendering *)

\* note-on velocities, in hundredths of full scale
Velocities == {100 \div k : k \in 1..NumVel}

\* MIDI pitches of the notes played
Pitches == {69 + 12 * k : k \in (0 - PitchSpan)..PitchSpan}

\* waveform samples of an oscillator and samples of a noise source
Waves == {-1, 0, 1}

RECURSIVE SemitonesUp(_, _)
SemitonesUp(f, n) ==
    IF n = 0 THEN f ELSE SemitonesUp((f * (SemitoneRatio \div 100)) \div 1000, n - 1)

RECURSIVE OctavesDown(_, _)
OctavesDown(f, n) == IF n = 0 THEN f ELSE OctavesDown(f \div 2, n - 1)

RECURSIVE OctavesUp(_, _)
OctavesUp(f, n) == IF n = 0 THEN f ELSE OctavesUp(f * 2, n - 1)

\* MToF: 440 * 2^((pitch - 69) / 12), in centi-Hz
MToF(pitch) ==
    IF pitch >= 69
    THEN SemitonesUp(OctavesUp(44000, (pitch - 69) \div 12), (pitch - 69) % 12)
    ELSE SemitonesUp(OctavesDown(44000, (80 - pitch) \div 12), (pitch - 69) % 12)

\* one gate transition of a MidiAdsr: a positive velocity starts the attack
\* from the level the envelope is at, velocity 0 starts the release
Gate(e, velocity) ==
    IF velocity > 0
    THEN [stage |-> "Attack", level |-> e.level, amp |-> velocity]
    ELSE IF e.stage = "Idle" THEN e ELSE [e EXCEPT !.stage = "Release"]

\* the level a stage moves by in one block, for a stage lasting dur ms
Step(span, dur) == Max(1, (span * BlockMs) \div dur)

SustainLevel(e) == (e.amp * SustainPct) \div 100

\* one block of a MidiAdsr
EnvAdvance(e) ==
    CASE e.stage = "Attack" ->
            LET l == IF e.level < e.amp
                     THEN Min(e.amp, e.level + Step(e.amp, AttackMs))
                     ELSE e.amp
            IN  [e EXCEPT !.level = l,
                          !.stage = IF l = e.amp THEN "Decay" ELSE "Attack"]
      [] e.stage = "Decay" ->
            LET l == Max(SustainLevel(e),
                         e.level - Step(e.amp - SustainLevel(e), DecayMs))
            IN  [e EXCEPT !.level = l,
                          !.stage = IF l = SustainLevel(e) THEN "Sustain" ELSE "Decay"]
      [] e.stage = "Release" ->
            LET l == Max(0, e.level - Step(e.amp, ReleaseMs))
            IN  [e EXCEPT !.level = l,
                          !.stage = IF l = 0 THEN "Idle" ELSE "Release"]
      [] OTHER -> e

\* output of a MidiAdsr(mul=0.65), in hundredths
EnvOut(e) == (e.level * EnvMulPct) \div 100

\* samples of lfo1 = LFO(type=7, mul=0.5, add=1), in hundredths
Lfo1Out == {100 - 10 * graph.lfo1.mul, 100, 100 + 10 * graph.lfo1.mul}

\* samples of lfo2 = LFO(type=1, mul=0.1, add=1), in hundredths
Lfo2Out == {100 - 10 * graph.lfo2.mul, 100, 100 + 10 * graph.lfo2.mul}

\* self._sel = Selector([self._whitenoise, self._pinknoise]); sel.voice is the
\* Python int (0 = white, 1 = pink), a Selector position is in tenths
SelOut(nz) ==
    Selector(<<nz[1] * graph.whitenoise.mul, nz[2] * graph.pinknoise.mul>>,
             10 * graph.sel.voice)

\* input of the filter: self._osc3 + self._sel, in 1e-4
FiltIn(w, nz, am) == Osc3Out(w, am) + 100 * SelOut(nz)

\* the samples the filter's input can take while the amplitude envelope
\* puts out e: every sample of the bank plus every sample of the noise
FiltIns(e) ==
    LET ams  == {AmpModMix(e, l1) : l1 \in Lfo1Out}
        bank == UNION {{Osc3Out(w, am) : w \in [1..3 -> Waves]} : am \in ams}
        nzs  == {100 * SelOut(nz) : nz \in [1..2 -> Waves]}
    IN  {o + n : o \in bank, n \in nzs}

\* freq of the filter: self._envfilt * 20000 * cutoffFact, in milli-Hz
FiltFreq(ef) == ef * CutoffScale * graph.filt.freq

\* the cutoff MoogLP computes its coefficients for, in milli-Hz: the freq
\* input held between 0.1 Hz and the Nyquist frequency
MoogFreq(f) == Max(100, Min(f, (SampleRate \div 2) * 1000))

\* memory of the ladder after one sample x filtered at cutoff f: the stages
\* stay at rest only while nothing passes into them
MoogLP(x, f, y) ==
    IF y = "rest" /\ (x = 0 \/ MoogFreq(f) = 0) THEN "rest" ELSE "excited"

\* a note event wired to the amplitude envelope alone
noteEvent_ampOnly(pitch, velocity) ==
    /\ notes' = [pitch |-> IF velocity > 0 THEN pitch ELSE notes.pitch,
                 velocity |-> velocity]
    /\ env' = Gate(env, velocity)
    /\ noteSeen' = TRUE
    /\ UNCHANGED <<self, graph, envfilt, moog, out, last, ncalls, threads>>

\* a MIDI note event reaches Notein, and through notes["velocity"] both
\* envelopes (lines 158-166, 193)
noteEvent(pitch, velocity) ==
    /\ notes' = [pitch |-> IF velocity > 0 THEN pitch ELSE notes.pitch,
                 velocity |-> velocity]
    /\ env' = Gate(env, velocity)
    /\ envfilt' = Gate(envfilt, velocity)
    /\ noteSeen' = TRUE
    /\ UNCHANGED <<self, graph, moog, out, last, ncalls, threads>>

\* one block pulled through the graph: envelopes, selectors, oscillator
\* bank, noise, filter, pan
Render ==
    /\ env' = EnvAdvance(env)
    /\ envfilt' = EnvAdvance(envfilt)
    /\ \E x \in FiltIns(EnvOut(env')) :
          /\ moog' = MoogLP(x, FiltFreq(EnvOut(envfilt')), moog)
          /\ out' = [silent |-> moog' = "rest"]
    /\ UNCHANGED <<self, graph, notes, noteSeen, last, ncalls, threads>>

\* the arguments tried while notes play: the ends of the documented range
VoiceArgs(p) == {Lo(p), Hi(p)}

InitVoice == InitDefault

NextVoice ==
    \/ \E pitch \in Pitches, velocity \in Velocities \cup {0} : noteEvent(pitch, velocity)
    \/ Render
    \/ \E x \in VoiceArgs("cutoffFact") : setCutoffFact(x) /\ UNCHANGED <<last, ncalls>>
    \/ \E x \in VoiceArgs("selector_adsrtremolo") :
          setSelectorADSRTremolo(x) /\ UNCHANGED <<last, ncalls>>
    \/ \E x \in VoiceArgs("voiceSel") : setVoiceSel(x) /\ UNCHANGED <<last, ncalls>>
    \/ \E x \in VoiceArgs("mulWhiteNoise") :
          setMulWhiteNoise(x) /\ UNCHANGED <<last, ncalls>>

SpecVoice == InitVoice /\ [][NextVoice]_vars

----------------------------------------------------------------------------
(* The setters of osc3.mul and osc2.freq statement by statement, as two     *)
(* control threads run them: the store to the private attribute, the read   *)
(* of the other attribute while the right-hand side is evaluated, and the   *)
(* write of the component's attribute. Nothing in the class holds a lock,   *)
(* so the threads may switch between any two of these.                      *)

\* thread t is about to execute the statement at position pc of setter op
At(t, op, pc) == threads[t].op = op /\ threads[t].pc = pc

\* thread t enters setter op with argument x and executes its first statement
Stored(t, op, x) ==
    /\ threads[t].pc = "idle"
    /\ Call(op, x)
    /\ threads' = [threads EXCEPT ![t] = [pc |-> "stored", op |-> op, arg |-> x, tmp |-> 0]]
    /\ UNCHANGED <<graph, sound>>

\* thread t loads the attribute p while evaluating the right-hand side
Loaded(t, p) ==
    /\ threads' = [threads EXCEPT ![t].pc = "loaded", ![t].tmp = self[p]]
    /\ UNCHANGED <<self, graph, sound, last, ncalls>>

\* thread t has assigned the component's attribute and returns
Returned(t, op) ==
    /\ At(t, op, "loaded")
    /\ threads' = [threads EXCEPT ![t].pc = "idle", ![t].tmp = 0]
    /\ UNCHANGED <<self, sound, last, ncalls>>

\* self._switch3 = x
setSwitch3_store(t, x) ==
    /\ Stored(t, "switch3", x)
    /\ self' = [self EXCEPT !.switch3 = x]

\* x*self._ampmodmix*self._mul3
setSwitch3_load(t) ==
    /\ At(t, "switch3", "stored")
    /\ Loaded(t, "mul3")

\* self._osc3.mul = ...
setSwitch3_assign(t) ==
    /\ Returned(t, "switch3")
    /\ graph' = [graph EXCEPT !.osc3.mul = threads[t].arg * threads[t].tmp]

\* self._mul3 = x
setMul3_store(t, x) ==
    /\ Stored(t, "mul3", x)
    /\ self' = [self EXCEPT !.mul3 = x]

\* self._ampmodmix*x*self._switch3
setMul3_load(t) ==
    /\ At(t, "mul3", "stored")
    /\ Loaded(t, "switch3")

\* self._osc3.mul = ...
setMul3_assign(t) ==
    /\ Returned(t, "mul3")
    /\ graph' = [graph EXCEPT !.osc3.mul = threads[t].arg * threads[t].tmp]

\* self._interval2 = x
setInterval2_store(t, x) ==
    /\ Stored(t, "interval2", x)
    /\ self' = [self EXCEPT !.interval2 = x]

\* (self._osc1.freq + (2**(1/12))*x)*self._range2
setInterval2_load(t) ==
    /\ At(t, "interval2", "stored")
    /\ Loaded(t, "range2")

\* self._osc2.freq = ...
setInterval2_assign(t) ==
    /\ Returned(t, "interval2")
    /\ graph' = [graph EXCEPT !.osc2.freq =
                    [interval |-> threads[t].arg, range |-> threads[t].tmp]]

\* self._range2 = x
setRange2_store(t, x) ==
    /\ Stored(t, "range2", x)
    /\ self' = [self EXCEPT !.range2 = x]

\* (self._osc1.freq + (2**(1/12))*self._interval2)*x
setRange2_load(t) ==
    /\ At(t, "range2", "stored")
    /\ Loaded(t, "interval2")

\* self._osc2.freq = ...
setRange2_assign(t) ==
    /\ Returned(t, "range2")
    /\ graph' = [graph EXCEPT !.osc2.freq =
                    [interval |-> threads[t].tmp, range |-> threads[t].arg]]

\* the synthesizer the threads work on: built with its defaults, or with
\* oscillator 3 switched on
ThreadCtorArgs == {Defaults, [Defaults EXCEPT !.switch3 = 1]}

InitThreads ==
    /\ \E a \in ThreadCtorArgs :
        /\ self = a
        /\ graph = Build(a)
    /\ Rest
    /\ last = [op |-> "__init__", arg |-> 0]
    /\ ncalls = 0

NextThreads ==
    \E t \in Threads :
        \/ \E x \in VoiceArgs("switch3") : setSwitch3_store(t, x)
        \/ setSwitch3_load(t)
        \/ setSwitch3_assign(t)
        \/ \E x \in VoiceArgs("mul3") : setMul3_store(t, x)
        \/ setMul3_load(t)
        \/ setMul3_assign(t)
        \/ \E x \in VoiceArgs("interval2") : setInterval2_store(t, x)
        \/ setInterval2_load(t)
        \/ setInterval2_assign(t)
        \/ \E x \in VoiceArgs("range2") : setRange2_store(t, x)
        \/ setRange2_load(t)
        \/ setRange2_assign(t)

SpecThreads == InitThreads /\ [][NextThreads]_vars

----------------------------------------------------------------------------
(* Properties of the control surface, checked under Spec and SpecDefault *)

\* x held inside the documented range of p
Clamp(p, x) == Max(Lo(p), Min(Hi(p), x))

\* the getter of p (the properties of lines 512-695)
Get(p) == self[p]

\* the value of parameter p in force in the graph
Handed(p) ==
    CASE p = "mul1" -> graph.osc1.mul
      [] p = "mul2" -> graph.osc2.mul
      [] p = "mul3" -> graph.osc3.mul
      [] p = "mulWhiteNoise" -> graph.whitenoise.mul
      [] p = "mulPinkNoise" -> graph.pinknoise.mul
      [] p = "cutoffFact" -> graph.filt.freq
      [] p = "res" -> graph.filt.res
      [] p = "selector_adsrtremolo" -> graph.ampmodmix.voice
      [] p = "selector_adsrvibrato" -> graph.freqmodmix.voice

\* outputs of the amplitude envelope: at rest, at sustain, at its peak
EnvOuts == {0, (SustainPct * EnvMulPct) \div 100, EnvMulPct}

\* values of the amplitude selector and of oscillator 1's frequency
AmpMods == {AmpModMix(e, l1) : e \in EnvOuts, l1 \in Lfo1Out}

Freqs ==
    {Osc1Freq(MToF(pitch), e, l2) :
        pitch \in Pitches \cup {0, 57, 81}, e \in EnvOuts, l2 \in Lfo2Out}

\* C1: after a setter of a gain/blend parameter was called with x, the value
\* stored and the value handed to the component are x clamped to the
\* documented range, so the parameter lies inside its range
C1_SettersClamp ==
    last.op \in Gains =>
        /\ Get(last.op) = Clamp(last.op, last.arg)
        /\ Handed(last.op) =
              Clamp(last.op, last.arg) * (IF last.op = "mul3" THEN self.switch3 ELSE 1)
        /\ InRange(last.op, Get(last.op))

\* C2: with interval2 = 0 and range2 = 1 the frequency of oscillator 2 is the
\* frequency of oscillator 1, whatever that frequency is; likewise oscillator 3
C2_Identity ==
    \A f \in Freqs :
        /\ (self.interval2 = 0 /\ self.range2 = 1) => Osc2Freq(f) = f
        /\ (self.interval3 = 0 /\ self.range3 = 1) => Osc3Freq(f) = f

\* range2 = 1 was supplied and setInterval2(0) was called after it
C2_Witness ==
    /\ last.op = "interval2"
    /\ ncalls = 2
    /\ self.interval2 = 0
    /\ self.range2 = 1
    /\ graph.osc2.freq = [interval |-> 0, range |-> 1]
    /\ \E f \in Freqs : f > 0

\* C3: with interval2 = 12 and range2 = 1 the frequency of oscillator 2 is
\* twice the frequency of oscillator 1, whatever that frequency is
C3_Octave ==
    \A f \in Freqs :
        (self.interval2 = 12 /\ self.range2 = 1) => Osc2Freq(f) = 2 * f

\* C4: while switch3 = 0 the amplitude of oscillator 3 is 0 and the bank sum
\* is osc1 + osc2, whatever mul3 and the amplitude selector's output are
C4_Osc3Off ==
    self.switch3 = 0 =>
        \A am \in AmpMods :
            /\ Osc3Mul(am) = 0
            /\ \A w \in [1..3 -> Waves] : Osc3Out(w, am) = Osc2Out(w, am)

\* setMul3 raised mul3 to 1.0 while oscillator 3 was switched off
C4_Witness ==
    /\ last.op = "mul3"
    /\ self.switch3 = 0
    /\ self.mul3 = 10
    /\ \E am \in AmpMods : am > 0

\* C8: the amplitude selector's output is the envelope at position 0, the
\* tremolo LFO at position 1 and the mean of the two at position 0.5
\* (a Selector's output is in tenths of its inputs' unit)
C8_Crossfade ==
    \A e \in EnvOuts, l1 \in Lfo1Out :
        /\ self.selector_adsrtremolo = 0 => AmpModMix(e, l1) = 10 * e
        /\ self.selector_adsrtremolo = 10 => AmpModMix(e, l1) = 10 * l1
        /\ self.selector_adsrtremolo = 5 => 2 * AmpModMix(e, l1) = 10 * (e + l1)

\* C9: a setter call makes its parameter read back the value given and
\* leaves the read-back value of every other parameter as it was
C9_SetGet ==
    [][ncalls' = ncalls + 1 =>
          LET p == last'.op
          IN  /\ self'[p] = last'.arg
              /\ \A q \in Params \ {p} : self'[q] = self[q]]_vars

\* setLFOvibrato(10) was called and lfovibrato reads back 10
C9_Witness ==
    /\ last = [op |-> "lfovibrato", arg |-> 10]
    /\ Get("lfovibrato") = 10
    /\ Get("lfotremolo") = 2

\* C10: from default construction on, through in-range setter calls, range2
\* and range3 are in [1,6] (1 after construction) and interval2 and
\* interval3 are in [-8,8] (0 after construction)
C10_Ranges ==
    /\ self.range2 \in 1..6
    /\ self.range3 \in 1..6
    /\ self.interval2 \in -8..8
    /\ self.interval3 \in -8..8
    /\ last.op = "__init__" =>
          /\ self.range2 = 1 /\ self.range3 = 1
          /\ self.interval2 = 0 /\ self.interval3 = 0

\* C11: the noise contribution to the filter input is the output of the one
\* voice voiceSel names (0 = white, 1 = pink) times that voice's gain, and
\* the other voice contributes nothing, whatever samples the two sources
\* put out (a Selector's output is in tenths of its inputs' unit)
C11_NoiseVoice ==
    \A nz \in [1..2 -> Waves] :
        /\ self.voiceSel = 0 => SelOut(nz) = 10 * nz[1] * self.mulWhiteNoise
        /\ self.voiceSel = 1 => SelOut(nz) = 10 * nz[2] * self.mulPinkNoise

\* C12: in every state reached by construction and setter calls, each
\* getter returns the value in force in the graph: voiceSel is the noise
\* selector's voice, mulWhiteNoise / mulPinkNoise the gains of the two noise
\* sources, the two selector positions the voices of the amplitude and
\* frequency selectors, lfotremolo / lfovibrato the LFO rates, res the
\* filter's resonance, typeN / sharpN each oscillator's type and sharp
C12_StoredApplied ==
    /\ Get("voiceSel") = graph.sel.voice
    /\ Get("mulWhiteNoise") = graph.whitenoise.mul
    /\ Get("mulPinkNoise") = graph.pinknoise.mul
    /\ Get("selector_adsrtremolo") = graph.ampmodmix.voice
    /\ Get("selector_adsrvibrato") = graph.freqmodmix.voice
    /\ Get("lfotremolo") = graph.lfo1.freq
    /\ Get("lfovibrato") = graph.lfo2.freq
    /\ Get("res") = graph.filt.res
    /\ Get("type1") = graph.osc1.type /\ Get("sharp1") = graph.osc1.sharp
    /\ Get("type2") = graph.osc2.type /\ Get("sharp2") = graph.osc2.sharp
    /\ Get("type3") = graph.osc3.type /\ Get("sharp3") = graph.osc3.sharp

----------------------------------------------------------------------------
(* Properties of concurrent setter calls, checked under SpecThreads *)

\* the two threads' latest calls were setter p on one and setter q on the other
Ran(p, q) ==
    \E t, u \in Threads : t # u /\ threads[t].op = p /\ threads[u].op = q

\* C13: once setSwitch3 and setMul3, run on two threads, have both
\* returned, the amplitude of oscillator 3 is the amplitude selector's
\* output times the stored mul3 times the stored switch3 (so 0 after
\* setSwitch3(0)), in every interleaving; and once setInterval2 and
\* setRange2 have both returned, osc2.freq is built from the stored
\* interval2 and range2
C13_NoRace ==
    (\A t \in Threads : threads[t].pc = "idle") =>
        /\ Ran("switch3", "mul3") =>
              \A am \in AmpMods : Osc3Mul(am) = am * self.mul3 * self.switch3
        /\ Ran("interval2", "range2") =>
              graph.osc2.freq = [interval |-> self.interval2, range |-> self.range2]

----------------------------------------------------------------------------
(* Properties of the playing voice, checked under SpecVoice *)

\* C5: as long as no note event was received, both envelopes are at level 0
\* and the rendered output is silence, whatever the parameters are
C5_Silence ==
    ~noteSeen =>
        /\ env.level = 0
        /\ envfilt.level = 0
        /\ out.silent

\* C6: for cutoffFact in [0,1] the freq handed to the filter,
\* envfilt * 20000 * cutoffFact (milli-Hz), is below a quarter of the
\* sampling rate
C6_Cutoff ==
    InRange("cutoffFact", self.cutoffFact) =>
        4 * FiltFreq(EnvOut(envfilt)) < SampleRate * 1000

\* one step of an envelope from e to f, as the ADSR state machine allows it
EnvStepOK(e, f) ==
    \/ f = e
    \/ /\ f.stage = "Attack"                      \* gate on: attack from the current level
       /\ f.level = e.level
    \/ /\ e.stage # "Idle"                        \* gate off
       /\ f = [e EXCEPT !.stage = "Release"]
    \/ /\ e.stage = "Attack"                      \* a block of the attack
       /\ f.amp = e.amp
       /\ e.level <= e.amp => (e.level <= f.level /\ f.level <= e.amp)
       /\ f.stage = (IF f.level = e.amp THEN "Decay" ELSE "Attack")
    \/ /\ e.stage = "Decay"                       \* a block of the decay
       /\ f.amp = e.amp
       /\ SustainLevel(e) <= f.level /\ f.level <= e.level
       /\ f.stage = (IF f.level = SustainLevel(e) THEN "Sustain" ELSE "Decay")
    \/ /\ e.stage = "Release"                     \* a block of the release
       /\ f.amp = e.amp
       /\ f.level < e.level \/ (e.level = 0 /\ f.level = 0)
       /\ f.stage = (IF f.level = 0 THEN "Idle" ELSE "Release")

====
